---- MODULE Spec2Model ----
(***************************************************************************)
(* Model of rufutex: a mutex whose lock word lives in shared memory and    *)
(* whose contended path blocks in the Linux futex system call              *)
(* (src/src/rufutex.rs, src/src/lib.rs).  Every atomic access of the lock  *)
(* word and every system call is one step of the calling thread.           *)
(***************************************************************************)
EXTENDS Integers, FiniteSets, Sequences, TLC

\* ------------------------------------------------------------------ bounds
NThreads == 3
MaxCycles == 2
MaxHint == 2
MaxVal == 3

\* ------------------------------------------------- constants of the program
UNLOCKED == 0
LOCKED_NO_WAITERS == 1
LOCKED_WAITERS == 2
\* the literal 0 that both syscall wrappers pass in the timeout position
NULL == 0

Threads == 1..NThreads
Hints == 1..MaxHint
\* values handed to cmpxchg: the lock states, one more, and the tests' 0xFF
CasValues == (0..MaxVal) \cup {255}
\* addresses of a timespec handed to wait_with_timeout: 64-bit pointers, held
\* as <<high 32 bits, low 32 bits>>
TimeoutPtrs == {<<0, 4096>>, <<32765, 8192>>}

Min(a, b) == IF a <= b THEN a ELSE b

VARIABLES
    word,     \* the lock word in shared memory (an AtomicU32)
    pc,       \* pc[t]: where thread t is
    ret,      \* ret[t]: the local `ret` of lock() / of a cmpxchg call (0 outside)
    arg,      \* arg[t]: the arguments of the operation thread t is running
    owns,     \* owns[t]: lock() returns of t not yet followed by an unlock()
    left,     \* left[t]: lock/unlock cycles thread t still has to perform
    counter,  \* the shared counter the lock protects
    tmp,      \* tmp[t]: the value of counter thread t read (0 outside)
    ksys,     \* ksys[t]: the futex system call thread t is blocked in
    via,      \* via[t]: how the lock() call of holder t took the lock
    status    \* status[t]: the status the last call of wait / post handed to t

vars == <<word, pc, ret, arg, owns, left, counter, tmp, ksys, via, status>>

NoArg == <<0, 0, 0>>

\* ------------------------------------------------------- atomic primitives
\* AtomicU32::compare_exchange(expected, desired, SeqCst, SeqCst)
compare_exchange(w, expected, desired) ==
    IF w = expected
    THEN [ok |-> TRUE, val |-> w, word |-> desired]
    ELSE [ok |-> FALSE, val |-> w, word |-> w]

\* a cmpxchg that compares but never writes
cmpxchgNoStore(w, expected, desired) ==
    [prev |-> w, word |-> w]

\* a cmpxchg that writes `desired` whatever the word holds
cmpxchgSwapsAlways(w, expected, desired) ==
    [prev |-> w, word |-> desired]

\* a cmpxchg whose Err arm returns `expected` instead of the value observed
cmpxchgReturnsExpected(w, expected, desired) ==
    [prev |-> expected, word |-> compare_exchange(w, expected, desired).word]

\* SharedFutex::cmpxchg: the value before the attempt, in both arms of the match
cmpxchg(w, expected, desired) ==
    LET r == compare_exchange(w, expected, desired)
    IN  [prev |-> r.val, word |-> r.word]

\* a fetch_sub that takes one more than it was asked to
fetch_subOneMore(w, n) == [prev |-> w, word |-> w - n - 1]

\* AtomicU32::fetch_sub(n, SeqCst), wrapping.  The 32-bit word is held as its
\* residue modulo 2^32 nearest 0, so that 0 - 1 is -1, which stands for 0xFFFFFFFF
fetch_sub(w, n) == [prev |-> w, word |-> w - n]

\* ------------------------------------------------------- the kernel bridge
NoSys == [op |-> "none", val |-> 0, timeout |-> NULL, uaddr2 |-> 0, val3 |-> 0,
          resume |-> "idle"]

\* syscall(SYS_futex, uaddr, futex_op, val, timeout, uaddr2, val3)
syscall_futex(futex_op, value, val3) ==
    [op |-> futex_op, val |-> value, timeout |-> NULL, uaddr2 |-> 0, val3 |-> val3,
     resume |-> "idle"]

syscall_futex3(futex_op, value, val2, val3) ==
    [op |-> futex_op, val |-> value, timeout |-> NULL, uaddr2 |-> val2, val3 |-> val3,
     resume |-> "idle"]

\* what libc::syscall returns: the result, or -1 with the error in errno
Ok(n) == [rv |-> n, errno |-> "none"]
Err(e) == [rv |-> -1, errno |-> e]
NoStatus == [rv |-> 0, errno |-> "nocall"]

\* the call sites `self.wait(LOCKED_WAITERS);` in lock() and
\* `self.post(how_may_waiters);` in unlock() drop what wait and post return
DropsStatus(resume) == resume \in {"lock_cas3", "idle"}

\* wait, wait_with_timeout, post and post_with_value returning 0 whatever the
\* kernel said
ReturnedZero(resume, s) == IF DropsStatus(resume) THEN NoStatus ELSE Ok(0)

\* wait, wait_with_timeout, post and post_with_value return the raw result of
\* the system call, which thread t then holds unless the call site drops it
Returned(resume, s) == IF DropsStatus(resume) THEN NoStatus ELSE s

Blocked == {t \in Threads : pc[t] = "blocked"}

\* FUTEX_WAKE wakes min(count, blocked) threads, in no particular order
WakeSets(n) ==
    {W \in SUBSET Blocked : Cardinality(W) = Min(n, Cardinality(Blocked))}

\* how a blocked FUTEX_WAIT can return without a wake: a signal (EINTR), any
\* number of times, or the timeout when the call carries one
WaitOutcomes(sys) ==
    {"EINTR"} \cup (IF sys.timeout # NULL THEN {"ETIMEDOUT"} ELSE {})

\* entry into FUTEX_WAIT: the kernel blocks the caller only if the word still
\* equals the expected value, else it returns EAGAIN at once
FutexWaitEnter(t, sys, resume) ==
    IF word = sys.val
    THEN /\ pc' = [pc EXCEPT ![t] = "blocked"]
         /\ ksys' = [ksys EXCEPT ![t] = [sys EXCEPT !.resume = resume]]
         /\ status' = status
    ELSE /\ pc' = [pc EXCEPT ![t] = resume]
         /\ ksys' = ksys
         /\ status' = [status EXCEPT ![t] = Returned(resume, Err("EAGAIN"))]

\* a blocked FUTEX_WAIT returns without a wake, with outcome o
KernelWaitReturnWith(t, o) ==
    /\ pc[t] = "blocked"
    /\ o \in WaitOutcomes(ksys[t])
    /\ pc' = [pc EXCEPT ![t] = ksys[t].resume]
    /\ ksys' = [ksys EXCEPT ![t] = NoSys]
    /\ status' = [status EXCEPT ![t] = Returned(ksys[t].resume, Err(o))]
    /\ UNCHANGED <<word, ret, arg, owns, left, counter, tmp, via>>

KernelWaitReturn(t) ==
    \E o \in {"EINTR", "ETIMEDOUT"} : KernelWaitReturnWith(t, o)

\* FUTEX_WAKE of n threads by thread t, which then goes on at `next`
FutexWake(t, n, next) ==
    \E W \in WakeSets(n) :
       /\ pc' = [u \in Threads |->
                   IF u \in W THEN ksys[u].resume ELSE IF u = t THEN next ELSE pc[u]]
       /\ ksys' = [u \in Threads |-> IF u \in W THEN NoSys ELSE ksys[u]]
       /\ status' = [u \in Threads |->
                     IF u \in W THEN Returned(ksys[u].resume, Ok(0))
                     ELSE IF u = t THEN Returned(next, Ok(Cardinality(W)))
                     ELSE status[u]]

\* ------------------------------------------------------------- initial state
\* the word seeded to w0, every thread outside any call with cyc[t] cycles to do
InitWith(w0, cyc) ==
    /\ word = w0
    /\ pc = [t \in Threads |-> "idle"]
    /\ ret = [t \in Threads |-> 0]
    /\ arg = [t \in Threads |-> NoArg]
    /\ owns = [t \in Threads |-> 0]
    /\ left = cyc
    /\ counter = 0
    /\ tmp = [t \in Threads |-> 0]
    /\ ksys = [t \in Threads |-> NoSys]
    /\ via = [t \in Threads |-> "none"]
    /\ status = [t \in Threads |-> NoStatus]

\* ------------------------------------------------------------------ lock()
\* the lock taken whenever the word was not LOCKED_WAITERS
LockTakenUnlessWaiters(prev) == prev # LOCKED_WAITERS

\* `if ret != 0` after the first cmpxchg, `if ret == 0 { break }` after the last
LockTaken(prev) == prev = 0

\* the condition under which the loop calls wait: ret == LOCKED_WAITERS, or
\* the cmpxchg(LOCKED_NO_WAITERS, LOCKED_WAITERS) saw something else than UNLOCKED
MustWait(r, prev) == (r = LOCKED_WAITERS) \/ (prev # UNLOCKED)

\* the first statement of lock(): cmpxchg(UNLOCKED, LOCKED_NO_WAITERS)
LockEnter(t) ==
    LET r == cmpxchg(word, UNLOCKED, LOCKED_NO_WAITERS) IN
    /\ word' = r.word
    /\ IF LockTaken(r.prev)
       THEN /\ pc' = [pc EXCEPT ![t] = "held"]
            /\ owns' = [owns EXCEPT ![t] = @ + 1]
            /\ ret' = [ret EXCEPT ![t] = 0]
            /\ via' = [via EXCEPT ![t] = "fast"]
       ELSE /\ pc' = [pc EXCEPT ![t] = "lock_test"]
            /\ owns' = owns
            /\ ret' = [ret EXCEPT ![t] = r.prev]
            /\ via' = via
    /\ UNCHANGED <<arg, left, counter, tmp, ksys, status>>

\* a thread that does not hold the lock calls lock()
LockCas1(t) ==
    /\ pc[t] = "idle"
    /\ left[t] > 0
    /\ LockEnter(t)

\* head of the loop: the shortcut on ret, else cmpxchg(LOCKED_NO_WAITERS, LOCKED_WAITERS).
\* ret is not read again before the cmpxchg at the end of the loop body
\* overwrites it, so it is cleared here
LockTest(t) ==
    /\ pc[t] = "lock_test"
    /\ LET r == IF ret[t] = LOCKED_WAITERS
                THEN [prev |-> word, word |-> word]
                ELSE cmpxchg(word, LOCKED_NO_WAITERS, LOCKED_WAITERS)
       IN /\ word' = r.word
          /\ pc' = [pc EXCEPT ![t] =
                      IF MustWait(ret[t], r.prev) THEN "lock_wait" ELSE "lock_cas3"]
    /\ ret' = [ret EXCEPT ![t] = 0]
    /\ UNCHANGED <<arg, owns, left, counter, tmp, ksys, via, status>>

\* self.wait(LOCKED_WAITERS) inside the loop; its status is dropped
LockWait(t) ==
    /\ pc[t] = "lock_wait"
    /\ FutexWaitEnter(t, syscall_futex("FUTEX_WAIT", LOCKED_WAITERS, 0), "lock_cas3")
    /\ UNCHANGED <<word, ret, arg, owns, left, counter, tmp, via>>

\* end of the loop body: cmpxchg(UNLOCKED, LOCKED_WAITERS)
LockCas3(t) ==
    /\ pc[t] = "lock_cas3"
    /\ LET r == cmpxchg(word, UNLOCKED, LOCKED_WAITERS) IN
       /\ word' = r.word
       /\ IF LockTaken(r.prev)
          THEN /\ pc' = [pc EXCEPT ![t] = "held"]
               /\ owns' = [owns EXCEPT ![t] = @ + 1]
               /\ ret' = [ret EXCEPT ![t] = 0]
               /\ via' = [via EXCEPT ![t] = "loop"]
          ELSE /\ pc' = [pc EXCEPT ![t] = "lock_test"]
               /\ owns' = owns
               /\ ret' = [ret EXCEPT ![t] = r.prev]
               /\ via' = via
    /\ UNCHANGED <<arg, left, counter, tmp, ksys, status>>

\* ---------------------------------------------------------------- unlock()
\* an unlock that always takes its contended branch
UnlockContendedAlways(prev) == TRUE

\* an unlock that never takes its contended branch
UnlockContendedNever(prev) == FALSE

\* `if ret != LOCKED_NO_WAITERS`
UnlockContended(prev) == prev # LOCKED_NO_WAITERS

\* the first statement of unlock(h): fetch_sub(1)
UnlockEnter(t, h) ==
    LET r == fetch_sub(word, 1) IN
    /\ word' = r.word
    /\ owns' = [owns EXCEPT ![t] = IF @ > 0 THEN @ - 1 ELSE 0]
    /\ via' = [via EXCEPT ![t] = "none"]
    /\ IF UnlockContended(r.prev)
       THEN /\ pc' = [pc EXCEPT ![t] = "unlock_store"]
            /\ arg' = [arg EXCEPT ![t] = <<h, 0, 0>>]
            /\ left' = left
       ELSE /\ pc' = [pc EXCEPT ![t] = "idle"]
            /\ arg' = arg
            /\ left' = [left EXCEPT ![t] = @ - 1]
    /\ UNCHANGED <<ret, counter, tmp, ksys, status>>

\* the holder calls unlock(h)
UnlockSub(t, h) ==
    /\ pc[t] = "unlock"
    /\ UnlockEnter(t, h)

\* (*self.atom).store(UNLOCKED)
UnlockStore(t) ==
    /\ pc[t] = "unlock_store"
    /\ word' = UNLOCKED
    /\ pc' = [pc EXCEPT ![t] = "unlock_post"]
    /\ UNCHANGED <<ret, arg, owns, left, counter, tmp, ksys, via, status>>

\* a post that asks the kernel to wake one waiter whatever it was given
postOne(t, number_of_waiters, next) ==
    FutexWake(t, syscall_futex("FUTEX_WAKE", 1, 0).val, next)

\* a post that asks the kernel to wake nobody
postNone(t, number_of_waiters, next) ==
    FutexWake(t, syscall_futex("FUTEX_WAKE", 0, 0).val, next)

\* a post that raises a count of 0 to 1
postAtLeastOne(t, number_of_waiters, next) ==
    FutexWake(t, syscall_futex("FUTEX_WAKE",
                               IF number_of_waiters = 0 THEN 1 ELSE number_of_waiters,
                               0).val, next)

\* post(number_of_waiters): one FUTEX_WAKE with the count as given
post(t, number_of_waiters, next) ==
    FutexWake(t, syscall_futex("FUTEX_WAKE", number_of_waiters, 0).val, next)

\* self.post(how_may_waiters); its status is dropped
UnlockPost(t) ==
    /\ pc[t] = "unlock_post"
    /\ post(t, arg[t][1], "idle")
    /\ arg' = [arg EXCEPT ![t] = NoArg]
    /\ left' = [left EXCEPT ![t] = @ - 1]
    /\ UNCHANGED <<word, ret, owns, counter, tmp, via>>

\* ------------------------------------------- the section the lock protects
\* the holder reads the shared counter
CsRead(t) ==
    /\ pc[t] = "held"
    /\ tmp' = [tmp EXCEPT ![t] = counter]
    /\ pc' = [pc EXCEPT ![t] = "incr"]
    /\ UNCHANGED <<word, ret, arg, owns, left, counter, ksys, via, status>>

\* the holder writes the counter back, incremented
CsWrite(t) ==
    /\ pc[t] = "incr"
    /\ counter' = tmp[t] + 1
    /\ tmp' = [tmp EXCEPT ![t] = 0]
    /\ pc' = [pc EXCEPT ![t] = "unlock"]
    /\ UNCHANGED <<word, ret, arg, owns, left, ksys, via, status>>

\* ------------------------------- correct use: lock, increment, unlock(h >= 1)
Init == InitWith(UNLOCKED, [t \in Threads |-> MaxCycles])

Next ==
    \E t \in Threads :
       \/ LockCas1(t)
       \/ LockTest(t)
       \/ LockWait(t)
       \/ KernelWaitReturn(t)
       \/ LockCas3(t)
       \/ CsRead(t)
       \/ CsWrite(t)
       \/ \E h \in Hints : UnlockSub(t, h)
       \/ UnlockStore(t)
       \/ UnlockPost(t)

Spec == Init /\ [][Next]_vars

\* the scheduler lets every thread that is not blocked in the kernel run again
ThreadStep(t) ==
    \/ LockCas1(t)
    \/ LockTest(t)
    \/ LockWait(t)
    \/ LockCas3(t)
    \/ CsRead(t)
    \/ CsWrite(t)
    \/ \E h \in Hints : UnlockSub(t, h)
    \/ UnlockStore(t)
    \/ UnlockPost(t)

SpecLive == Init /\ [][Next]_vars /\ \A t \in Threads : WF_vars(ThreadStep(t))

\* ---------------- the contended test: the word preset to LOCKED_NO_WAITERS
\* The test stores LOCKED_NO_WAITERS on behalf of a first thread, which later
\* calls unlock(h); a second thread calls lock() once and ends.
InitContended ==
    \E first, second \in Threads :
       /\ first # second
       /\ word = LOCKED_NO_WAITERS
       /\ pc = [t \in Threads |-> IF t = first THEN "unlock" ELSE "idle"]
       /\ ret = [t \in Threads |-> 0]
       /\ arg = [t \in Threads |-> NoArg]
       /\ owns = [t \in Threads |-> IF t = first THEN 1 ELSE 0]
       /\ left = [t \in Threads |-> IF t \in {first, second} THEN 1 ELSE 0]
       /\ counter = 0
       /\ tmp = [t \in Threads |-> 0]
       /\ ksys = [t \in Threads |-> NoSys]
       /\ via = [t \in Threads |-> "none"]
       /\ status = [t \in Threads |-> NoStatus]

\* the steps of a thread inside lock() and past the first statement of unlock()
InnerStep(t) ==
    \/ LockCas1(t)
    \/ LockTest(t)
    \/ LockWait(t)
    \/ LockCas3(t)
    \/ UnlockStore(t)
    \/ UnlockPost(t)

NextContended ==
    \E t \in Threads :
       \/ InnerStep(t)
       \/ KernelWaitReturn(t)
       \/ \E h \in Hints : UnlockSub(t, h)

\* a running thread goes on running; when the first thread calls unlock is
\* left open
SpecContended ==
    InitContended /\ [][NextContended]_vars /\ \A t \in Threads : WF_vars(InnerStep(t))

\* ------------------ uncontended use: one thread at a time uses the lock
\* no other thread is inside lock(), holds the lock or is inside unlock()
Uncontended(t) == \A u \in Threads \ {t} : pc[u] = "idle"

NextFast ==
    \E t \in Threads :
       \/ Uncontended(t) /\ LockCas1(t)
       \/ CsRead(t)
       \/ CsWrite(t)
       \/ \E h \in Hints : UnlockSub(t, h)

SpecFast == Init /\ [][NextFast]_vars

\* ------------------------------------- cmpxchg called on its own (the tests)
\* the tests store a value in the word, then call cmpxchg; two threads do so
InitCas ==
    \E w \in CasValues :
       InitWith(w, [t \in Threads |-> IF t <= 2 THEN 1 ELSE 0])

\* Self::cmpxchg(atom, expected, desired), the result kept in ret[t]
CasCall(t, expected, desired) ==
    /\ pc[t] = "idle"
    /\ left[t] > 0
    /\ LET r == cmpxchg(word, expected, desired) IN
       /\ word' = r.word
       /\ ret' = [ret EXCEPT ![t] = r.prev]
    /\ arg' = [arg EXCEPT ![t] = <<expected, desired, 0>>]
    /\ pc' = [pc EXCEPT ![t] = "cas_done"]
    /\ UNCHANGED <<owns, left, counter, tmp, ksys, via, status>>

\* the caller is done with the result
CasReturn(t) ==
    /\ pc[t] = "cas_done"
    /\ ret' = [ret EXCEPT ![t] = 0]
    /\ arg' = [arg EXCEPT ![t] = NoArg]
    /\ pc' = [pc EXCEPT ![t] = "idle"]
    /\ UNCHANGED <<word, owns, left, counter, tmp, ksys, via, status>>

NextCas ==
    \E t \in Threads :
       \/ \E e, d \in CasValues : CasCall(t, e, d)
       \/ CasReturn(t)

SpecCas == InitCas /\ [][NextCas]_vars

\* ------------------------------------------------------ wait_with_timeout
WaitValues == {UNLOCKED, LOCKED_NO_WAITERS, LOCKED_WAITERS}

\* `timeout as u32`: the low 32 bits of the pointer
AsU32(ptr) == ptr[2]

\* a pointer that is not null
NonNull(hi, lo) == <<hi, lo>> # <<0, 0>>

InitTimed ==
    \E w \in WaitValues : InitWith(w, [t \in Threads |-> 1])

\* wait_with_timeout(wait_value, timeout): the truncated pointer goes to
\* syscall_futex3 as val2
WaitWithTimeout(t, wait_value, timeout) ==
    /\ pc[t] = "idle"
    /\ left[t] > 0
    /\ FutexWaitEnter(t, syscall_futex3("FUTEX_WAIT", wait_value, AsU32(timeout), 0),
                      "wait_done")
    /\ arg' = [arg EXCEPT ![t] = <<wait_value, timeout[1], timeout[2]>>]
    /\ UNCHANGED <<word, ret, owns, left, counter, tmp, via>>

\* wait_with_timeout has returned to its caller
WaitReturn(t) ==
    /\ pc[t] = "wait_done"
    /\ arg' = [arg EXCEPT ![t] = NoArg]
    /\ status' = [status EXCEPT ![t] = NoStatus]
    /\ pc' = [pc EXCEPT ![t] = "idle"]
    /\ UNCHANGED <<word, ret, owns, left, counter, tmp, ksys, via>>

NextTimed ==
    \E t \in Threads :
       \/ \E v \in WaitValues, p \in TimeoutPtrs : WaitWithTimeout(t, v, p)
       \/ KernelWaitReturn(t)
       \/ WaitReturn(t)

\* time passes: a timeout the kernel was given runs out; a running thread goes on
SpecTimed ==
    /\ InitTimed
    /\ [][NextTimed]_vars
    /\ \A t \in Threads :
          /\ WF_vars(KernelWaitReturnWith(t, "ETIMEDOUT"))
          /\ WF_vars(WaitReturn(t))

\* ------------------------------------ misuse: lock() called by the holder
\* the holder calls lock() a second time, with no unlock() in between
Relock(t) ==
    /\ pc[t] = "held"
    /\ LockEnter(t)

NextReentrant ==
    \/ Next
    \/ \E t \in Threads : Relock(t)

SpecReentrant == Init /\ [][NextReentrant]_vars

\* ------------------------------------------ a holder that ends while holding
\* the holder terminates without calling unlock()
Die(t) ==
    /\ pc[t] \in {"held", "incr", "unlock"}
    /\ pc' = [pc EXCEPT ![t] = "dead"]
    /\ tmp' = [tmp EXCEPT ![t] = 0]
    /\ UNCHANGED <<word, ret, arg, owns, left, counter, ksys, via, status>>

NextDead ==
    \/ Next
    \/ \E t \in Threads : Die(t)

SpecDead == Init /\ [][NextDead]_vars

\* ------------------------- one thread waits, one thread posts with a value
\* a post_with_value that does not store the value
PostWithValueNoStore(t, value, number_of_waiters) ==
    /\ pc[t] = "pwv_call"
    /\ word' = word
    /\ arg' = [arg EXCEPT ![t] = <<value, number_of_waiters, 0>>]
    /\ pc' = [pc EXCEPT ![t] = "pwv_wake"]
    /\ UNCHANGED <<ret, owns, left, counter, tmp, ksys, via, status>>

\* wait(wait_value): one FUTEX_WAIT on the word, its result returned
Wait(t, wait_value) ==
    /\ pc[t] = "wait_call"
    /\ FutexWaitEnter(t, syscall_futex("FUTEX_WAIT", wait_value, 0), "wait_done")
    /\ arg' = [arg EXCEPT ![t] = <<wait_value, 0, 0>>]
    /\ UNCHANGED <<word, ret, owns, left, counter, tmp, via>>

\* post_with_value(value, number_of_waiters), first statement: store(value)
PostWithValueStore(t, value, number_of_waiters) ==
    /\ pc[t] = "pwv_call"
    /\ word' = value
    /\ arg' = [arg EXCEPT ![t] = <<value, number_of_waiters, 0>>]
    /\ pc' = [pc EXCEPT ![t] = "pwv_wake"]
    /\ UNCHANGED <<ret, owns, left, counter, tmp, ksys, via, status>>

\* post_with_value, second statement: FUTEX_WAKE with the count, result returned
PostWithValueWake(t) ==
    /\ pc[t] = "pwv_wake"
    /\ FutexWake(t, syscall_futex("FUTEX_WAKE", arg[t][2], 0).val, "post_done")
    /\ UNCHANGED <<word, ret, arg, owns, left, counter, tmp, via>>

\* the word holds any of the values; one thread is about to call wait, another
\* about to call post_with_value
InitPost ==
    \E w \in WaitValues, waiter, poster \in Threads :
       /\ waiter # poster
       /\ word = w
       /\ pc = [t \in Threads |-> IF t = waiter THEN "wait_call"
                                  ELSE IF t = poster THEN "pwv_call" ELSE "idle"]
       /\ ret = [t \in Threads |-> 0]
       /\ arg = [t \in Threads |-> NoArg]
       /\ owns = [t \in Threads |-> 0]
       /\ left = [t \in Threads |-> 0]
       /\ counter = 0
       /\ tmp = [t \in Threads |-> 0]
       /\ ksys = [t \in Threads |-> NoSys]
       /\ via = [t \in Threads |-> "none"]
       /\ status = [t \in Threads |-> NoStatus]

NextPost ==
    \E t \in Threads :
       \/ \E v \in WaitValues : Wait(t, v)
       \/ \E v \in WaitValues, n \in Hints : PostWithValueStore(t, v, n)
       \/ PostWithValueWake(t)
       \/ KernelWaitReturnWith(t, "EINTR")

SpecPost == InitPost /\ [][NextPost]_vars

\* --------------- every operation of the handle, on one word, one call each
\* post(number_of_waiters) called on its own, its result returned
Post(t, number_of_waiters) ==
    /\ pc[t] = "post_call"
    /\ post(t, number_of_waiters, "post_done")
    /\ arg' = [arg EXCEPT ![t] = <<number_of_waiters, 0, 0>>]
    /\ UNCHANGED <<word, ret, owns, left, counter, tmp, via>>

\* what the thread that wakes is about to call
Calls == {"post_call", "pwv_call"}

\* one thread goes through lock() and unlock(h) or calls wait_with_timeout,
\* one is about to call wait, one about to call post or post_with_value
InitBridge ==
    \E w \in WaitValues, locker, waiter, poster \in Threads, call \in Calls :
       /\ locker # waiter /\ locker # poster /\ waiter # poster
       /\ word = w
       /\ pc = [t \in Threads |-> IF t = waiter THEN "wait_call"
                                  ELSE IF t = poster THEN call ELSE "idle"]
       /\ ret = [t \in Threads |-> 0]
       /\ arg = [t \in Threads |-> NoArg]
       /\ owns = [t \in Threads |-> 0]
       /\ left = [t \in Threads |-> IF t = locker THEN 1 ELSE 0]
       /\ counter = 0
       /\ tmp = [t \in Threads |-> 0]
       /\ ksys = [t \in Threads |-> NoSys]
       /\ via = [t \in Threads |-> "none"]
       /\ status = [t \in Threads |-> NoStatus]

NextBridge ==
    \E t \in Threads :
       \/ LockCas1(t)
       \/ LockTest(t)
       \/ LockWait(t)
       \/ LockCas3(t)
       \/ CsRead(t)
       \/ CsWrite(t)
       \/ \E h \in Hints : UnlockSub(t, h)
       \/ UnlockStore(t)
       \/ UnlockPost(t)
       \/ \E v \in WaitValues : Wait(t, v)
       \/ \E v \in WaitValues, p \in TimeoutPtrs : WaitWithTimeout(t, v, p)
       \/ WaitReturn(t)
       \/ \E n \in Hints : Post(t, n)
       \/ \E v \in WaitValues, n \in Hints : PostWithValueStore(t, v, n)
       \/ PostWithValueWake(t)
       \/ KernelWaitReturnWith(t, "EINTR")

SpecBridge == InitBridge /\ [][NextBridge]_vars

\* ----------------------- set_futex_value, then a load of the word (the tests)
\* a set_futex_value that also wakes one waiter, as post_with_value(value, 1)
SetValueWakes(t, value) ==
    /\ pc[t] = "set_call"
    /\ word' = value
    /\ arg' = [arg EXCEPT ![t] = <<value, 0, 0>>]
    /\ FutexWake(t, 1, "set_done")
    /\ UNCHANGED <<ret, owns, left, counter, tmp, via>>

\* set_futex_value(value): store(value), nothing else
SetValue(t, value) ==
    /\ pc[t] = "set_call"
    /\ word' = value
    /\ arg' = [arg EXCEPT ![t] = <<value, 0, 0>>]
    /\ pc' = [pc EXCEPT ![t] = "set_done"]
    /\ UNCHANGED <<ret, owns, left, counter, tmp, ksys, via, status>>

\* (*atom).load(SeqCst), the value kept in ret[t]
Load(t) ==
    /\ pc[t] = "set_done"
    /\ ret' = [ret EXCEPT ![t] = word]
    /\ pc' = [pc EXCEPT ![t] = "load_done"]
    /\ UNCHANGED <<word, arg, owns, left, counter, tmp, ksys, via, status>>

\* values handed to set_futex_value
SetValues == 0..MaxVal

\* no other thread is between its store and its load
NoOtherWriter(t) == \A u \in Threads \ {t} : pc[u] # "set_done"

\* every thread is about to call wait or set_futex_value
InitSet ==
    \E w \in WaitValues, call \in [Threads -> {"wait_call", "set_call"}] :
       /\ word = w
       /\ pc = call
       /\ ret = [t \in Threads |-> 0]
       /\ arg = [t \in Threads |-> NoArg]
       /\ owns = [t \in Threads |-> 0]
       /\ left = [t \in Threads |-> 0]
       /\ counter = 0
       /\ tmp = [t \in Threads |-> 0]
       /\ ksys = [t \in Threads |-> NoSys]
       /\ via = [t \in Threads |-> "none"]
       /\ status = [t \in Threads |-> NoStatus]

NextSet ==
    \E t \in Threads :
       \/ \E v \in WaitValues : Wait(t, v)
       \/ KernelWaitReturnWith(t, "EINTR")
       \/ \E v \in SetValues : NoOtherWriter(t) /\ SetValue(t, v)
       \/ Load(t)

SpecSet == InitSet /\ [][NextSet]_vars

\* ------------------------------ misuse: unlock by a thread that does not hold
\* an unlock that finds out that its caller does not hold the lock and returns
RogueUnlockRejected(t, h) ==
    /\ pc[t] = "idle"
    /\ owns[t] = 0
    /\ left[t] > 0
    /\ left' = [left EXCEPT ![t] = @ - 1]
    /\ UNCHANGED <<word, pc, ret, arg, owns, counter, tmp, ksys, via, status>>

\* a thread outside any call, which does not hold the lock, calls unlock(h):
\* unlock() has no notion of a holder and runs as for any caller
RogueUnlock(t, h) ==
    /\ pc[t] = "idle"
    /\ owns[t] = 0
    /\ left[t] > 0
    /\ UnlockEnter(t, h)

NextMisuse ==
    \E t \in Threads :
       \/ LockCas1(t)
       \/ LockTest(t)
       \/ LockWait(t)
       \/ LockCas3(t)
       \/ CsRead(t)
       \/ CsWrite(t)
       \/ \E h \in Hints : UnlockSub(t, h)
       \/ UnlockStore(t)
       \/ UnlockPost(t)
       \/ KernelWaitReturnWith(t, "EINTR")
       \/ \E h \in Hints : RogueUnlock(t, h)

\* every thread makes one call: lock() followed by unlock(h), or unlock(h) alone
InitMisuse == InitWith(UNLOCKED, [t \in Threads |-> 1])

SpecMisuse == InitMisuse /\ [][NextMisuse]_vars

\* ------------------------------------ unlock called with a wake hint of 0
\* how_may_waiters is a u32 that unlock hands on as it is: 0 is accepted
HintsFromZero == 0..MaxHint

NextZero ==
    \E t \in Threads :
       \/ LockCas1(t)
       \/ LockTest(t)
       \/ LockWait(t)
       \/ LockCas3(t)
       \/ CsRead(t)
       \/ CsWrite(t)
       \/ \E h \in HintsFromZero : UnlockSub(t, h)
       \/ UnlockStore(t)
       \/ UnlockPost(t)
       \/ KernelWaitReturnWith(t, "EINTR")

SpecZero == Init /\ [][NextZero]_vars

\* ------------------------------------------------------------------ claims
Holders == {t \in Threads : owns[t] > 0}
InUnlock == {t \in Threads : pc[t] \in {"unlock_store", "unlock_post"}}
InLockLoop == {t \in Threads : pc[t] \in {"lock_test", "lock_wait", "lock_cas3"}}
AllDone == \A t \in Threads : pc[t] = "idle" /\ left[t] = 0

\* C1: mutual exclusion.  At most one thread is between the return of its
\* lock() and the start of its unlock(), and no thread holds the lock twice.
C1_MutualExclusion ==
    /\ Cardinality(Holders) <= 1
    /\ \A t \in Threads : owns[t] <= 1

\* a holder while another thread, back from the kernel wait, is about to try
\* its cmpxchg
C1_Witness ==
    \E t, u \in Threads :
       t # u /\ owns[t] = 1 /\ pc[u] = "lock_cas3"

\* C2: liveness under contention.  Under fair scheduling every thread finishes
\* all its cycles, and the counter then equals the number of cycles performed.
C2_Liveness ==
    /\ <>AllDone
    /\ [](AllDone => counter = NThreads * MaxCycles)

\* every thread done, all cycles counted
C2_Witness == AllDone /\ counter = NThreads * MaxCycles

C8_Unlocked == word = UNLOCKED => Holders = {}

\* the word back at UNLOCKED through the contended branch of unlock, with a
\* thread still blocked in the kernel
C8_Witness ==
    /\ word = UNLOCKED
    /\ Blocked # {}
    /\ \E t \in Threads : pc[t] = "unlock_post"

\* C3: the contended scenario.  While the first thread has not called unlock
\* no lock() has returned, and the second thread comes to block in the kernel
\* with the word at LOCKED_WAITERS unless unlock is called first; once unlock
\* has been called the second thread's lock() returns, and the word is then
\* LOCKED_NO_WAITERS or LOCKED_WAITERS.
UnlockNotCalled == \E t \in Threads : pc[t] = "unlock"
LockReturned == \E t \in Threads : pc[t] = "held"

C3_Contended ==
    /\ [](UnlockNotCalled => ~LockReturned)
    /\ <>((Blocked # {} /\ word = LOCKED_WAITERS) \/ ~UnlockNotCalled)
    /\ (~UnlockNotCalled) ~> LockReturned
    /\ [](LockReturned => word \in {LOCKED_NO_WAITERS, LOCKED_WAITERS})

\* lock() has returned through the contended loop, after a complete contended
\* unlock
C3_Witness ==
    /\ LockReturned
    /\ word = LOCKED_WAITERS
    /\ \A t \in Threads : pc[t] \in {"held", "idle"}

\* C4: the fast path.  With one thread at a time using the lock, lock()
\* returns after its first cmpxchg without entering the loop or the kernel and
\* leaves the word at LOCKED_NO_WAITERS; unlock returns after its decrement,
\* which leaves UNLOCKED, without the store and the wake; and so on for every
\* later cycle.
C4_FastPath ==
    /\ \A t \in Threads : pc[t] \in {"idle", "held", "incr", "unlock"}
    /\ Blocked = {}
    /\ Holders # {} => word = LOCKED_NO_WAITERS
    /\ Holders = {} => word = UNLOCKED

\* a thread that has gone through all its cycles on the fast path, and another
\* one that holds the lock
C4_Witness ==
    \E t, u \in Threads :
       /\ left[t] = 0
       /\ pc[t] = "idle"
       /\ counter >= MaxCycles
       /\ pc[u] = "held"
       /\ word = LOCKED_NO_WAITERS

\* C5: the contract of cmpxchg.  In the one step in which a thread's
\* cmpxchg(expected, desired) takes place, it returns the word as it was before
\* the step, and the word becomes desired if it was equal to expected and is
\* left as it was otherwise; no other thread moves in that step.
C5_CasContract ==
    [][\A t \in Threads :
          (pc[t] = "idle" /\ pc'[t] = "cas_done") =>
             /\ ret'[t] = word
             /\ word' = IF word = arg'[t][1] THEN arg'[t][2] ELSE word
             /\ \A u \in Threads \ {t} : pc'[u] = pc[u] /\ ret'[u] = ret[u]]_vars

\* two calls done, one that swapped (0xFF for UNLOCKED) and one that did not
C5_Witness ==
    \E t, u \in Threads :
       /\ pc[t] = "cas_done" /\ ret[t] = arg[t][1] /\ arg[t] = <<UNLOCKED, 255, 0>>
       /\ pc[u] = "cas_done" /\ ret[u] # arg[u][1] /\ word = ret[u]

\* C6: wait_with_timeout bounds the suspension of its caller.  A thread
\* blocked in wait_with_timeout, called with a timeout, is eventually not
\* blocked any more, also when the word stays put and nobody wakes it.
C6_AsStated ==
    \A t \in Threads :
       (pc[t] = "blocked" /\ NonNull(arg[t][2], arg[t][3])) ~> (pc[t] # "blocked")

\* C9: lock() is not reentrant.  A thread that calls lock() while it holds the
\* lock stays inside that call for ever, however often the kernel wait returns;
\* no thread ever holds the lock twice.
InSecondLock(t) ==
    owns[t] = 1 /\ pc[t] \in {"lock_test", "lock_wait", "blocked", "lock_cas3"}

C9_NonReentrant ==
    /\ [](\A t \in Threads : owns[t] <= 1)
    /\ [][\A t \in Threads : InSecondLock(t) => InSecondLock(t)']_vars

\* a thread inside its second lock(), back from the kernel wait and about to
\* try its cmpxchg again, while another thread is blocked
C9_Witness ==
    \E t \in Threads :
       /\ InSecondLock(t)
       /\ pc[t] = "lock_cas3"
       /\ Blocked # {}

\* C10: no recovery from a dead holder.  Once a thread has ended while holding
\* the lock, the word is never UNLOCKED and no other thread holds the lock, that
\* is, no lock() call returns any more.
DeadHolders == {t \in Threads : pc[t] = "dead"}

C10_DeadHolder ==
    DeadHolders # {} =>
       /\ word # UNLOCKED
       /\ Holders = DeadHolders

\* a dead holder, one thread blocked in the kernel and one that returned from
\* the kernel wait and is about to try its cmpxchg again
C10_Witness ==
    /\ DeadHolders # {}
    /\ Blocked # {}
    /\ \E t \in Threads : pc[t] = "lock_cas3"

\* the threads whose call of post / post_with_value has completed
PostDone == {t \in Threads : pc[t] = "post_done"}

\* C11: no missed update with post_with_value: once post_with_value(value,
\* count >= 1) has completed, the one thread that called wait(expected) with
\* expected # value is not blocked, whatever the order of the store, the wake
\* and the waiter's entry into the kernel
C11_NoMissedUpdate ==
    \A p \in PostDone : \A w \in Blocked :
       ksys[w].val = arg[p][1]

\* the waiter was blocked on a value other than the one posted, the wake of the
\* completed post_with_value woke it
C11_Witness ==
    \E p \in PostDone : \E w \in Threads :
       /\ pc[w] = "wait_done"
       /\ arg[w][1] # arg[p][1]
       /\ status[w] = Ok(0)
       /\ status[p] = Ok(1)

\* in this step a kernel wait of thread t returned a failure: EAGAIN without
\* blocking, or EINTR while no other thread did anything
WaitFailed(t) ==
    \/ pc[t] \in {"lock_wait", "wait_call"} /\ pc'[t] \in {"lock_cas3", "wait_done"}
    \/ pc[t] = "idle" /\ pc'[t] = "wait_done"
    \/ pc[t] = "blocked" /\ pc'[t] # "blocked" /\ \A u \in Threads \ {t} : pc'[u] = pc[u]

\* in this step a wake of another thread ended the kernel wait of thread t
Woken(t) ==
    pc[t] = "blocked" /\ pc'[t] # "blocked" /\ \E u \in Threads \ {t} : pc'[u] # pc[u]

\* C12 as stated: whenever a kernel wait issued by any operation returns a
\* failure status, the operation hands that status to its caller
C12_AsStated ==
    [][\A t \in Threads : WaitFailed(t) => status'[t].rv = -1]_vars

\* C12, amended: wait, wait_with_timeout, post and post_with_value return the
\* raw result of their one kernel request (EAGAIN or EINTR as -1, 0 for a
\* waiter a wake released, the number woken for a wake); lock() drops the
\* status of its kernel wait and goes on to its next cmpxchg, unlock() drops
\* the status of its wake
C12_Surfaced ==
    [][\A t \in Threads :
          /\ (WaitFailed(t) /\ pc'[t] = "wait_done") =>
                /\ status'[t].rv = -1
                /\ status'[t].errno = (IF pc[t] = "blocked" THEN "EINTR" ELSE "EAGAIN")
          /\ (Woken(t) /\ pc'[t] = "wait_done") => status'[t] = Ok(0)
          /\ (pc[t] \in {"post_call", "pwv_wake"} /\ pc'[t] # pc[t]) =>
                /\ pc'[t] = "post_done"
                /\ status'[t] = Ok(Cardinality(Blocked \ Blocked'))
          /\ (pc[t] \in {"lock_wait", "blocked"} /\ pc'[t] \notin {pc[t], "blocked", "wait_done"}) =>
                /\ pc'[t] = "lock_cas3"
                /\ status'[t] = NoStatus
          /\ (pc[t] = "unlock_post" /\ pc'[t] # pc[t]) =>
                /\ pc'[t] = "idle"
                /\ status'[t] = NoStatus
    ]_vars

\* a call of wait holds the EINTR the kernel gave it while a thread inside
\* lock() is past a kernel wait whose status is gone
C12_Witness ==
    \E t, u \in Threads :
       /\ pc[t] = "wait_done" /\ status[t] = Err("EINTR")
       /\ pc[u] = "lock_cas3" /\ status[u] = NoStatus

\* C13: round trip of set_futex_value: a load that follows set_futex_value(v)
\* with no write of another thread in between returns v, and the step of
\* set_futex_value stores v and wakes nobody
C13_RoundTrip ==
    /\ [](\A t \in Threads : pc[t] = "load_done" => ret[t] = arg[t][1])
    /\ [][\A t \in Threads :
             (pc[t] = "set_call" /\ pc'[t] # "set_call") =>
                /\ word' = arg'[t][1]
                /\ Blocked' = Blocked
                /\ ksys' = ksys
                /\ \A u \in Threads \ {t} : pc'[u] = pc[u]
         ]_vars

\* a thread has read back the value it set, a value other than the one a
\* waiter is still blocked on
C13_Witness ==
    \E t, u \in Threads :
       /\ pc[t] = "load_done" /\ ret[t] = LOCKED_WAITERS
       /\ pc[u] = "blocked" /\ ksys[u].val = UNLOCKED

\* C14: contended unlock.  When the decrement of unlock(waiters_hint) sees a
\* previous value other than LOCKED_NO_WAITERS, unlock stores UNLOCKED without
\* waking anybody, then issues one wake with count waiters_hint, which
\* releases min(waiters_hint, number of blocked threads) threads and ends the
\* call: the store always comes before the wake
C14_ContendedUnlock ==
    [][\A t \in Threads :
          /\ (pc[t] = "unlock" /\ pc'[t] # "unlock" /\ word # LOCKED_NO_WAITERS) =>
                /\ pc'[t] = "unlock_store"
                /\ arg'[t][1] \in Hints
                /\ Blocked' = Blocked
          /\ (pc[t] = "unlock_store" /\ pc'[t] # "unlock_store") =>
                /\ pc'[t] = "unlock_post"
                /\ word' = UNLOCKED
                /\ arg'[t] = arg[t]
                /\ Blocked' = Blocked
          /\ (pc[t] = "unlock_post" /\ pc'[t] # "unlock_post") =>
                /\ pc'[t] = "idle"
                /\ word' = word
                /\ Blocked' \subseteq Blocked
                /\ Cardinality(Blocked \ Blocked') =
                      Min(arg[t][1], Cardinality(Blocked))
    ]_vars

\* an unlock about to wake with a hint of 1 while two threads are blocked,
\* the word already UNLOCKED
C14_Witness ==
    \E t \in Threads :
       /\ pc[t] = "unlock_post"
       /\ arg[t][1] = 1
       /\ Cardinality(Blocked) = 2
       /\ word = UNLOCKED

\* the holders whose lock() took the lock in its contended loop
LoopHolders == {t \in Holders : via[t] = "loop"}

\* C15: pessimistic waiter marking.  A lock() that acquires in the contended
\* loop does so by the cmpxchg of UNLOCKED to LOCKED_WAITERS; the word stays
\* LOCKED_WAITERS while that thread holds the lock and has not begun unlock;
\* its unlock takes the contended branch, also when no thread is blocked
C15_Pessimistic ==
    /\ [](\A t \in LoopHolders : pc[t] \in {"held", "incr", "unlock"} /\ word = LOCKED_WAITERS)
    /\ [][\A t \in Threads :
             /\ (pc[t] \in {"lock_test", "lock_wait", "blocked", "lock_cas3"} /\ pc'[t] = "held") =>
                   /\ pc[t] = "lock_cas3"
                   /\ word = UNLOCKED
                   /\ word' = LOCKED_WAITERS
                   /\ t \in LoopHolders'
             /\ (t \in LoopHolders /\ t \notin LoopHolders') =>
                   /\ pc[t] = "unlock"
                   /\ pc'[t] = "unlock_store"
                   /\ word' = LOCKED_NO_WAITERS
         ]_vars

\* a holder that acquired in the contended loop is about to unlock while no
\* other thread is inside lock(): the wake of its unlock will find nobody
C15_Witness ==
    \E t \in LoopHolders :
       /\ pc[t] = "unlock"
       /\ \A u \in Threads \ {t} : pc[u] = "idle"

\* C16: re-check after every return of the kernel wait.  Whatever ends the
\* wait inside lock() (a wake, an interruption, an immediate EAGAIN), the
\* thread does not hold the lock then and its next step is the cmpxchg of
\* UNLOCKED to LOCKED_WAITERS; lock() returns only from a cmpxchg of the
\* caller that saw UNLOCKED; at most one thread holds the lock although
\* waits may return at any time
C16_Recheck ==
    /\ [][\A t \in Threads :
             /\ (pc[t] \in {"lock_wait", "blocked"} /\ pc'[t] \notin {pc[t], "blocked"}) =>
                   /\ pc'[t] = "lock_cas3"
                   /\ owns'[t] = 0
                   /\ word' = word
             /\ (pc[t] = "lock_cas3" /\ pc'[t] # "lock_cas3") =>
                   IF word = UNLOCKED
                   THEN pc'[t] = "held" /\ word' = LOCKED_WAITERS
                   ELSE pc'[t] = "lock_test" /\ word' = word /\ owns'[t] = 0
             /\ owns'[t] > owns[t] =>
                   /\ pc[t] \in {"idle", "lock_cas3"}
                   /\ word = UNLOCKED
                   /\ word' # UNLOCKED
         ]_vars
    /\ [](Cardinality(Holders) <= 1)

\* a thread past the kernel wait is about to try its cmpxchg while another
\* thread, which acquired in the loop, holds the lock and a third is blocked
C16_Witness ==
    \E t \in Threads : \E u \in LoopHolders :
       /\ pc[t] = "lock_cas3"
       /\ pc[u] = "incr"
       /\ Blocked # {}

\* in this step thread t, which does not hold the lock, runs the first
\* statement of unlock()
RogueStep(t) ==
    /\ pc[t] = "idle"
    /\ owns[t] = 0
    /\ \/ pc'[t] = "unlock_store"
       \/ pc'[t] = "idle" /\ left'[t] < left[t]

\* C17: misuse is neither detected nor reported.  An unlock() by a thread
\* that does not hold the lock decrements the word like any other and hands
\* no status to its caller; when the word is LOCKED_NO_WAITERS because
\* another thread holds the lock, the word becomes UNLOCKED while that thread
\* is still a holder
C17_Misuse ==
    [][\A t \in Threads :
          RogueStep(t) =>
             /\ word' = word - 1
             /\ status'[t] = NoStatus
             /\ Holders' = Holders
             /\ (word = LOCKED_NO_WAITERS) => (word' = UNLOCKED /\ pc'[t] = "idle")
             /\ (word # LOCKED_NO_WAITERS) => pc'[t] = "unlock_store"
    ]_vars

\* two threads hold the lock at once, both inside the protected section
C17_Witness ==
    \E t, u \in Threads :
       /\ t # u
       /\ pc[t] = "incr" /\ owns[t] = 1
       /\ pc[u] = "incr" /\ owns[u] = 1

\* the threads inside lock()
InLock == InLockLoop \cup Blocked

\* the lock is free: the word is UNLOCKED, no thread holds it, no unlock is
\* in progress
LockFree == word = UNLOCKED /\ Holders = {} /\ InUnlock = {}

\* the lock is free while threads are inside lock(), all of them blocked
LostWakeup == LockFree /\ InLock # {} /\ InLock \subseteq Blocked

\* C18: no lost wakeup.  With hints of at least 1, no reachable state has the
\* lock free while some thread is inside lock() and every thread inside
\* lock() is blocked in the kernel; and whenever the lock is free while some
\* thread is inside lock(), some thread acquires it later
C18_NoLostWakeup ==
    /\ [](~ LostWakeup)
    /\ ((LockFree /\ InLock # {}) ~> (Holders # {}))

\* the lock is free just after the wake of an unlock, one thread released by
\* it and about to try its cmpxchg, another still blocked
C18_Witness ==
    /\ LockFree
    /\ \E t \in Threads : pc[t] = "lock_cas3"
    /\ Blocked # {}

\* C19: range of the lock word.  With the word seeded UNLOCKED and unlock()
\* called by the holder only, the word is UNLOCKED, LOCKED_NO_WAITERS or
\* LOCKED_WAITERS in every reachable state, the state between the decrement
\* and the store of a contended unlock included, and the decrement of
\* unlock() always finds a word of at least 1: it never wraps below 0
C19_WordRange ==
    /\ [](word \in {UNLOCKED, LOCKED_NO_WAITERS, LOCKED_WAITERS})
    /\ [][\A t \in Threads :
             (pc[t] = "unlock" /\ pc'[t] # "unlock") =>
                /\ word \in {LOCKED_NO_WAITERS, LOCKED_WAITERS}
                /\ word' = word - 1
         ]_vars

\* a contended unlock between its decrement and its store: the word is
\* LOCKED_NO_WAITERS and no thread holds the lock
C19_Witness ==
    \E t \in Threads :
       /\ pc[t] = "unlock_store"
       /\ word = LOCKED_NO_WAITERS
       /\ Holders = {}

\* the lock is free, threads are blocked inside lock(), and every other
\* thread has finished all its calls
Stranded ==
    /\ LockFree
    /\ Blocked # {}
    /\ \A t \in Threads \ Blocked : pc[t] = "idle" /\ left[t] = 0

\* C20: a wake hint of 0 strands waiters.  unlock() hands its hint to the
\* kernel wake as it is: the wake of unlock(0) releases nobody after the
\* store of UNLOCKED; once the lock is free with threads blocked inside
\* lock() and all other threads finished, no step of the program releases
\* them: only an interruption of the kernel wait does
C20_ZeroHint ==
    [][/\ \A t \in Threads :
             (pc[t] = "unlock_post" /\ pc'[t] # "unlock_post") =>
                /\ word' = word
                /\ Cardinality(Blocked \ Blocked') = Min(arg[t][1], Cardinality(Blocked))
                /\ (arg[t][1] = 0) => (Blocked' = Blocked)
       /\ Stranded =>
             \E t \in Blocked :
                /\ pc' = [pc EXCEPT ![t] = "lock_cas3"]
                /\ word' = word
    ]_vars

\* the word is UNLOCKED, no thread holds the lock, every thread but one has
\* finished, and that one is blocked inside lock()
C20_Witness ==
    /\ Stranded
    /\ Cardinality(Blocked) = 1
    /\ \A t \in Blocked : ksys[t].resume = "lock_cas3" /\ ksys[t].val = LOCKED_WAITERS

====
